---- MODULE Spec2Model ----
(***************************************************************************)
(* The screenshot service of api/screenshot.js (two variants of the same   *)
(* Express application): rate limiter, Joi validation, the per-request     *)
(* browser session of takeScreenshot, and the route handlers.              *)
(*                                                                         *)
(* Numbers carried by a request are held in tenths (100.5 is 1005), so     *)
(* that a non-integer width is a value of the model.                       *)
(***************************************************************************)
EXTENDS Integers, Sequences, FiniteSets, TLC

VARIABLES
    variant,    \* which source file is deployed: "screenshot.js" or "part_000"
    now,        \* the clock, in ms
    store,      \* the limiter's memory store: client key -> [hits, resetTime]
    seen,       \* history: per key, the start of its current 60-second window (the first
                \* request after the last one ended) and the requests received in it
    wasLimited, \* history: whether a request of the key has ever been answered 429
    req         \* request slot -> the state of the request being served in it

vars == <<variant, now, store, seen, wasLimited, req>>

(***************************************************************************)
(* Bounds of the model.                                                    *)
(***************************************************************************)
\* requests one key may send in one window under Spec (the quota is not reached)
MaxHits == 2
\* requests one key may send beyond the quota in one window under SpecBurst
MaxOver == 2
\* how many times the clock advances, by half a window each time
MaxTicks == 2

\* request slots and client keys; Spec and SpecBurst serve one request at a time, in slot 1
Reqs == {1, 2}
Keys == {"k1", "k2"}

(***************************************************************************)
(* Configuration constants of the source.                                  *)
(***************************************************************************)
MIN_DIMENSION == 100
MAX_DIMENSION == 2000
DEFAULT_WIDTH == 1280
DEFAULT_HEIGHT == 720
SUPPORTED_FORMATS == <<"jpeg", "png">>
DESKTOP_UA == "Mozilla/5.0 (Windows NT 10.0; Win64; x64) Chrome/120.0.0.0"
windowMs == 60 * 1000
\* the step of the clock
Tick == windowMs \div 2
max == 30
waitMs == 1000
jpegQuality == 90

Variants == {"screenshot.js", "part_000"}

(***************************************************************************)
(* Raw parameter values, as they arrive in req.query or req.body.          *)
(***************************************************************************)
\* a number of the source, in the model's tenths
Tenths(n) == n * 10

Absent == [k |-> "absent", n |-> 0, s |-> ""]
Num(n) == [k |-> "num", n |-> n, s |-> ""]
Str(s) == [k |-> "str", n |-> 0, s |-> s]
Bool(b) == [k |-> "bool", n |-> IF b THEN 1 ELSE 0, s |-> ""]

OkUrl == "http://a.example/"
OkReferer == "http://ref.example/"
\* the strings Joi's uri() rule accepts, among those the model sends
IsUri(s) == s \in {OkUrl, OkReferer}

\* Joi's conversion of a numeric string (a query-string value) to a number, in tenths
NumericStrings == {"1280", "100.5", "2001"}
ParseNumber(s) ==
    CASE s = "1280" -> 12800
      [] s = "100.5" -> 1005
      [] s = "2001" -> 20010
      [] OTHER -> 0

\* Joi's conversion of "true"/"false" to a boolean
BooleanStrings == {"true", "false"}

Fields == <<"url", "format", "width", "height", "full_page", "referer">>
UnknownField == "debug"

Range(seq) == {seq[i] : i \in DOMAIN seq}

(***************************************************************************)
(* The schema: each key's rule gives the converted value and the errors    *)
(* (Joi error types) of that key.                                          *)
(***************************************************************************)
Detail(path, type) == [path |-> path, type |-> type]

\* the url rule without required(): an absent url passes
UrlRuleM(raw) ==
    IF raw.k = "absent" THEN [errs |-> <<>>, v |-> ""]
    ELSE IF raw.k # "str" THEN [errs |-> <<Detail("url", "string.base")>>, v |-> ""]
    ELSE IF raw.s = "" THEN [errs |-> <<Detail("url", "string.empty")>>, v |-> ""]
    ELSE IF ~IsUri(raw.s) THEN [errs |-> <<Detail("url", "string.uri")>>, v |-> ""]
    ELSE [errs |-> <<>>, v |-> raw.s]
\* Joi.string().uri().required()
UrlRule(raw) ==
    IF raw.k = "absent" THEN [errs |-> <<Detail("url", "any.required")>>, v |-> ""]
    ELSE IF raw.k # "str" THEN [errs |-> <<Detail("url", "string.base")>>, v |-> ""]
    ELSE IF raw.s = "" THEN [errs |-> <<Detail("url", "string.empty")>>, v |-> ""]
    ELSE IF ~IsUri(raw.s) THEN [errs |-> <<Detail("url", "string.uri")>>, v |-> ""]
    ELSE [errs |-> <<>>, v |-> raw.s]

\* a format rule whose default is png
FormatRuleM(raw) ==
    IF raw.k = "absent" THEN [errs |-> <<>>, v |-> SUPPORTED_FORMATS[2]]
    ELSE IF raw.k = "str" /\ raw.s \in Range(SUPPORTED_FORMATS) THEN [errs |-> <<>>, v |-> raw.s]
    ELSE [errs |-> <<Detail("format", "any.only")>>, v |-> ""]
\* Joi.string().valid('jpeg', 'png').default('jpeg')
FormatRule(raw) ==
    IF raw.k = "absent" THEN [errs |-> <<>>, v |-> SUPPORTED_FORMATS[1]]
    ELSE IF raw.k = "str" /\ raw.s \in Range(SUPPORTED_FORMATS) THEN [errs |-> <<>>, v |-> raw.s]
    ELSE [errs |-> <<Detail("format", "any.only")>>, v |-> ""]

\* the number rule without max()
NumberRuleM(field, raw, dflt) ==
    LET n == IF raw.k = "num" THEN raw.n ELSE ParseNumber(raw.s) IN
    IF raw.k = "absent" THEN [errs |-> <<>>, v |-> Tenths(dflt)]
    ELSE IF raw.k = "bool" \/ (raw.k = "str" /\ raw.s \notin NumericStrings)
        THEN [errs |-> <<Detail(field, "number.base")>>, v |-> 0]
    ELSE IF n < Tenths(MIN_DIMENSION) THEN [errs |-> <<Detail(field, "number.min")>>, v |-> 0]
    ELSE [errs |-> <<>>, v |-> n]
\* Joi.number().min(100).max(MAX_DIMENSION).default(dflt): no integer() rule
NumberRule(field, raw, dflt) ==
    LET n == IF raw.k = "num" THEN raw.n ELSE ParseNumber(raw.s) IN
    IF raw.k = "absent" THEN [errs |-> <<>>, v |-> Tenths(dflt)]
    ELSE IF raw.k = "bool" \/ (raw.k = "str" /\ raw.s \notin NumericStrings)
        THEN [errs |-> <<Detail(field, "number.base")>>, v |-> 0]
    ELSE IF n < Tenths(MIN_DIMENSION) THEN [errs |-> <<Detail(field, "number.min")>>, v |-> 0]
    ELSE IF n > Tenths(MAX_DIMENSION) THEN [errs |-> <<Detail(field, "number.max")>>, v |-> 0]
    ELSE [errs |-> <<>>, v |-> n]

\* Joi.boolean().default(false)
BooleanRule(raw) ==
    IF raw.k = "absent" THEN [errs |-> <<>>, v |-> FALSE]
    ELSE IF raw.k = "bool" THEN [errs |-> <<>>, v |-> raw.n = 1]
    ELSE IF raw.k = "str" /\ raw.s \in BooleanStrings THEN [errs |-> <<>>, v |-> raw.s = "true"]
    ELSE [errs |-> <<Detail("full_page", "boolean.base")>>, v |-> FALSE]

\* Joi.string().uri().optional(): the value stays undefined ("" here) when absent
RefererRule(raw) ==
    IF raw.k = "absent" THEN [errs |-> <<>>, v |-> ""]
    ELSE IF raw.k # "str" THEN [errs |-> <<Detail("referer", "string.base")>>, v |-> ""]
    ELSE IF raw.s = "" THEN [errs |-> <<Detail("referer", "string.empty")>>, v |-> ""]
    ELSE IF ~IsUri(raw.s) THEN [errs |-> <<Detail("referer", "string.uri")>>, v |-> ""]
    ELSE [errs |-> <<>>, v |-> raw.s]

\* an object schema with unknown(): every key is allowed
UnknownRuleM(raw) == <<>>
\* Joi.object(): keys the schema does not name are not allowed (no unknown())
UnknownRule(raw) ==
    IF raw.k = "absent" THEN <<>> ELSE <<Detail(UnknownField, "object.unknown")>>

\* validate called with {abortEarly: false}
abortEarlyM == FALSE
\* schema.validate is called with no options: Joi stops at the first error
abortEarly == TRUE

\* every violated rule, in the order Joi visits them: the schema's keys, then unknown keys
AllErrors(bag) ==
    UrlRule(bag.url).errs \o FormatRule(bag.format).errs
      \o NumberRule("width", bag.width, DEFAULT_WIDTH).errs
      \o NumberRule("height", bag.height, DEFAULT_HEIGHT).errs
      \o BooleanRule(bag.full_page).errs \o RefererRule(bag.referer).errs
      \o UnknownRule(bag.debug)

NoValue ==
    [url |-> "", format |-> "", width |-> 0, height |-> 0, full_page |-> FALSE, referer |-> ""]

\* schema.validate(bag): {error, value}; details is error.details, empty when error is undefined
Validate(bag) ==
    LET errs == AllErrors(bag) IN
    IF errs # <<>>
    THEN [details |-> IF abortEarly THEN <<Head(errs)>> ELSE errs, value |-> NoValue]
    ELSE [details |-> <<>>,
          value |-> [url |-> UrlRule(bag.url).v,
                     format |-> FormatRule(bag.format).v,
                     width |-> NumberRule("width", bag.width, DEFAULT_WIDTH).v,
                     height |-> NumberRule("height", bag.height, DEFAULT_HEIGHT).v,
                     full_page |-> BooleanRule(bag.full_page).v,
                     referer |-> RefererRule(bag.referer).v]]

(***************************************************************************)
(* Requests.                                                               *)
(***************************************************************************)
Route(method, path) == [method |-> method, path |-> path]
AllRoutes ==
    {Route("GET", "/"), Route("POST", "/"), Route("GET", "/api/screenshot"),
     Route("POST", "/api/screenshot"), Route("GET", "/health")}

\* the route handler the application registers for a route: "screenshot" or "none"
Handler(v, route) ==
    IF v = "screenshot.js"
    THEN IF route.path = "/api/screenshot" /\ route.method \in {"GET", "POST"}
         THEN "screenshot" ELSE "none"
    ELSE IF route.path = "/" /\ route.method \in {"GET", "POST"}
         THEN "screenshot" ELSE "none"

Bag(url, format, width, height, full_page, referer, debug) ==
    [url |-> url, format |-> format, width |-> width, height |-> height,
     full_page |-> full_page, referer |-> referer, debug |-> debug]
EmptyBag == Bag(Absent, Absent, Absent, Absent, Absent, Absent, Absent)

\* the parameter sets the model sends
Bags ==
    {   \* valid
        [EmptyBag EXCEPT !.url = Str(OkUrl)],
        [EmptyBag EXCEPT !.url = Str(OkUrl), !.format = Str("png"), !.width = Num(Tenths(100)),
                         !.height = Num(Tenths(2000)), !.full_page = Str("true"),
                         !.referer = Str(OkReferer)],
        [EmptyBag EXCEPT !.url = Str(OkUrl), !.width = Str("100.5")],
        \* one rule violated
        EmptyBag,
        [EmptyBag EXCEPT !.url = Str("not a uri")],
        [EmptyBag EXCEPT !.url = Str(OkUrl), !.width = Num(Tenths(99))],
        [EmptyBag EXCEPT !.url = Str(OkUrl), !.height = Str("2001")],
        [EmptyBag EXCEPT !.url = Str(OkUrl), !.debug = Str("1")],
        \* several rules violated
        [EmptyBag EXCEPT !.format = Str("gif"), !.width = Num(Tenths(2001))],
        [EmptyBag EXCEPT !.url = Str(OkUrl), !.width = Num(Tenths(2001)), !.debug = Str("1")]
    }
BurstBags ==
    {   [EmptyBag EXCEPT !.url = Str(OkUrl)],
        EmptyBag,
        [EmptyBag EXCEPT !.url = Str(OkUrl), !.width = Num(Tenths(2001))],
        [EmptyBag EXCEPT !.url = Str(OkUrl), !.height = Num(Tenths(99))]
    }

(***************************************************************************)
(* Results and responses.                                                  *)
(***************************************************************************)
NoImage == [format |-> "", width |-> 0, height |-> 0, fullPage |-> FALSE, url |-> "", quality |-> 0]
NoBody == [kind |-> "none", image |-> NoImage, error |-> <<>>, details |-> <<>>]
NoHeaders == [contentType |-> <<>>, cacheControl |-> ""]
NoResult == [status |-> 0, headers |-> NoHeaders, body |-> NoBody]
NoResponse == [status |-> 0, contentType |-> <<>>, cacheControl |-> "", body |-> NoBody]
NoPage == [open |-> FALSE, viewport |-> <<>>, userAgent |-> "", referer |-> "", url |-> "", waited |-> 0]

\* res.status(status).json({error: ...})
Json(status, error, details) ==
    [status |-> status, contentType |-> <<"application/json">>, cacheControl |-> "",
     body |-> [kind |-> "json", image |-> NoImage, error |-> error, details |-> details]]

\* res.status(result.status).set(result.headers).send(result.body): the body is a string,
\* which Express sends as text/html unless Content-Type was set
Send(result) ==
    [status |-> result.status,
     contentType |-> IF result.headers = NoHeaders THEN <<"text/html">> ELSE result.headers.contentType,
     cacheControl |-> result.headers.cacheControl,
     body |-> result.body]

RateLimitMessage == "too many requests, try again later"
ScreenshotFailedPrefix == "screenshot failed: "

CacheControl(v) ==
    IF v = "screenshot.js" THEN "public, max-age=300" ELSE "public, max-age=86400, s-maxage=3600"

IdleSlot ==
    [pc |-> "idle", route |-> Route("", ""), key |-> "", bag |-> EmptyBag, hit |-> 0,
     resetTime |-> 0, ord |-> 0,
     validated |-> FALSE, value |-> NoValue, browser |-> FALSE, proc |-> "none",
     page |-> NoPage, calls |-> <<>>, failed |-> "", closeFailed |-> FALSE, logged |-> FALSE,
     result |-> NoResult,
     response |-> NoResponse, unhandled |-> FALSE]

(***************************************************************************)
(* The rate limiter: rateLimit({windowMs, max, handler}) with its memory   *)
(* store, a fixed window per client key.                                   *)
(***************************************************************************)
NoEntry == [hits |-> 0, resetTime |-> 0]

\* a store whose windows never elapse
IncrementM(entry, t) ==
    IF entry = NoEntry
    THEN [hits |-> 1, resetTime |-> t + windowMs]
    ELSE [entry EXCEPT !.hits = @ + 1]
\* a store that reads a key's count and does not write it back
IncrementLostM(entry, t) ==
    IF entry = NoEntry \/ t >= entry.resetTime
    THEN [hits |-> 1, resetTime |-> t + windowMs]
    ELSE [entry EXCEPT !.hits = @]
\* the store's increment: a new window starts when the key has none or its window has elapsed
Increment(entry, t) ==
    IF entry = NoEntry \/ t >= entry.resetTime
    THEN [hits |-> 1, resetTime |-> t + windowMs]
    ELSE [entry EXCEPT !.hits = @ + 1]

\* a limiter that admits one request per window
LimitedM(totalHits) == totalHits > 1
\* a limiter with skipFailedRequests: the hit of a request answered 400 or more is taken back
RecordedM(entry, s) ==
    IF s.response.status >= 400 THEN [entry EXCEPT !.hits = @ - 1] ELSE entry
\* the limiter has no skip, skipFailedRequests or skipSuccessfulRequests option: the hit
\* stays in the store whatever the request is answered
Recorded(entry, s) == entry

\* the middleware's test of the total it got back
Limited(totalHits) == totalHits > max

(***************************************************************************)
(* takeScreenshot, from the point where one of its awaits settles.         *)
(***************************************************************************)
StageOrder ==
    <<"launch", "newPage", "setViewportSize", "setExtraHTTPHeaders", "goto",
      "waitForTimeout", "screenshot">>

NextStage(stage) ==
    LET i == CHOOSE j \in DOMAIN StageOrder : StageOrder[j] = stage IN
    IF i < Len(StageOrder) THEN StageOrder[i + 1] ELSE "close"

\* the messages a stage's rejection can carry
Messages(stage) ==
    IF stage = "goto"
    THEN {"Timeout 20000ms exceeded", "net::ERR_NAME_NOT_RESOLVED"}
    ELSE {"browser error"}

\* the handler's response to what takeScreenshot returned
Respond(s) == [s EXCEPT !.pc = "done", !.response = Send(s.result)]

\* a close whose rejection is swallowed: the handler sends what takeScreenshot had built
RouteCatchSendM(s, msg) == Respond(s)
\* a route handler without catch: the error escapes it
RouteCatchM(s, msg) == [s EXCEPT !.pc = "done", !.unhandled = TRUE]
\* the route handler's catch: res.status(500).json({error: err.message})
RouteCatch(s, msg) == [s EXCEPT !.pc = "done", !.response = Json(500, <<msg>>, <<>>)]

\* takeScreenshot's catch: the 500 result (part_000 logs the error first)
Catch(s, stage, msg) ==
    [s EXCEPT !.failed = stage,
              !.logged = (variant = "part_000"),
              !.result = [status |-> 500, headers |-> NoHeaders,
                          body |-> [kind |-> "json-text", image |-> NoImage,
                                    error |-> <<ScreenshotFailedPrefix, msg>>,
                                    details |-> <<>>]]]

\* a takeScreenshot without finally: the browser is never closed
FinallyM(s) == Respond(s)
\* takeScreenshot's finally: with a browser, await browser.close(); with none, the
\* function returns and the handler responds
Finally(s) == IF s.browser THEN [s EXCEPT !.pc = "close"] ELSE Respond(s)

\* the Buffer page.screenshot resolves to: the bytes of the image
Buffer(image) == [kind |-> "bytes", image |-> image, error |-> <<>>, details |-> <<>>]

\* buffer.toString('base64'): the bytes as base64 text
ToBase64(buffer) == [buffer EXCEPT !.kind = "base64"]

\* a Referer header that is always the page's own url
RefererHeaderM(params) == params.url
\* 'Referer': params.referer || params.url
RefererHeader(params) == IF params.referer # "" THEN params.referer ELSE params.url

\* what a stage that resolved leaves behind
Effect(s, stage) ==
    CASE stage = "launch" -> [s EXCEPT !.browser = TRUE, !.proc = "running"]
      [] stage = "newPage" -> [s EXCEPT !.page.open = TRUE]
      [] stage = "setViewportSize" ->
            [s EXCEPT !.page.viewport = <<s.value.width, s.value.height>>]
      [] stage = "setExtraHTTPHeaders" ->
            [s EXCEPT !.page.userAgent = DESKTOP_UA,
                      !.page.referer = RefererHeader(s.value)]
      [] stage = "goto" -> [s EXCEPT !.page.url = s.value.url]
      [] stage = "waitForTimeout" -> [s EXCEPT !.page.waited = waitMs]
      [] stage = "screenshot" ->
            [s EXCEPT !.result =
                [status |-> 200,
                 headers |-> [contentType |-> <<"image/", s.value.format>>,
                              cacheControl |-> CacheControl(variant)],
                 body |-> ToBase64(Buffer([format |-> s.value.format,
                                           width |-> s.page.viewport[1],
                                           height |-> s.page.viewport[2],
                                           fullPage |-> s.value.full_page,
                                           url |-> s.page.url,
                                           quality |-> IF s.value.format = "jpeg"
                                                       THEN jpegQuality ELSE 0]))]]

\* a stage's promise resolved: the next stage is awaited; after the capture the function
\* returns its result through finally
Resolved(s, stage) ==
    IF stage = "screenshot" THEN Finally(Effect(s, stage))
    ELSE [Effect(s, stage) EXCEPT !.pc = NextStage(stage)]

\* a rejected stage that is awaited once more
RejectedM(s, stage, msg) == [s EXCEPT !.pc = stage]
\* a stage's promise rejected: catch, then finally
Rejected(s, stage, msg) == Finally(Catch(s, stage, msg))

(***************************************************************************)
(* The middleware chain and the route handlers, up to their first await.   *)
(***************************************************************************)
\* the route handler: validate, answer 400 or call takeScreenshot (which awaits launch)
RouteHandler(s) ==
    LET v == Validate(s.bag) IN
    IF v.details # <<>>
    THEN [s EXCEPT !.validated = TRUE, !.pc = "done", !.response = Json(400, <<>>, v.details)]
    ELSE [s EXCEPT !.validated = TRUE, !.value = v.value, !.pc = "launch"]

\* no route matches: Express answers 404
NotFound(s) ==
    [s EXCEPT !.pc = "done",
              !.response = [status |-> 404, contentType |-> <<"text/html">>, cacheControl |-> "",
                            body |-> [NoBody EXCEPT !.kind = "html"]]]

Dispatch(s) == IF Handler(variant, s.route) = "none" THEN NotFound(s) ELSE RouteHandler(s)

\* a limiter handler that answers 429 and still calls next()
LimitHandlerM(s) == [Dispatch(s) EXCEPT !.response = Json(429, <<RateLimitMessage>>, <<>>)]
\* the limiter's handler option: 429, and the chain stops
LimitHandler(s) ==
    [s EXCEPT !.pc = "done", !.response = Json(429, <<RateLimitMessage>>, <<>>)]

\* the routes registered before the limiter: it is never reached
MiddlewareM(s) == Dispatch(s)
\* app.use(express.json()); app.use(limiter): the limiter comes before the routes
Middleware(s) == IF Limited(s.hit) THEN LimitHandler(s) ELSE Dispatch(s)

(***************************************************************************)
(* Actions.                                                                *)
(***************************************************************************)
\* the history of a key after one more request at time t: 60 seconds after a window's
\* first request the next request opens a new one
Observed(h, t) ==
    IF h.count = 0 \/ t - h.start >= 60000
    THEN [start |-> t, count |-> 1]
    ELSE [h EXCEPT !.count = @ + 1]

\* a request arrives in the first free slot and runs to its first await or its response
Receive(r, routes, bags, caps) ==
    /\ req[r].pc = "idle"
    /\ \A q \in Reqs : q < r => req[q].pc # "idle"
    /\ \E k \in Keys, route \in routes, bag \in bags :
          /\ Observed(seen[k], now).count <= caps[k]
          /\ LET entry == Increment(store[k], now)
                 s == [IdleSlot EXCEPT !.route = route, !.key = k, !.bag = bag,
                                       !.hit = entry.hits, !.resetTime = entry.resetTime,
                                       !.ord = Observed(seen[k], now).count]
             IN /\ store' = [store EXCEPT ![k] = Recorded(entry, Middleware(s))]
                /\ seen' = [seen EXCEPT ![k] = Observed(seen[k], now)]
                /\ wasLimited' = [wasLimited EXCEPT ![k] = @ \/ Middleware(s).response.status = 429]
                /\ req' = [req EXCEPT ![r] = Middleware(s)]
    /\ UNCHANGED <<variant, now>>

\* the awaited promise of a browser stage settles
Stage(r, stage) ==
    /\ req[r].pc = stage
    /\ LET s == [req[r] EXCEPT !.calls = Append(@, stage)] IN
          \/ req' = [req EXCEPT ![r] = Resolved(s, stage)]
          \/ \E msg \in Messages(stage) : req' = [req EXCEPT ![r] = Rejected(s, stage, msg)]
    /\ UNCHANGED <<variant, now, store, seen, wasLimited>>

Launch(r) == Stage(r, "launch")
NewPage(r) == Stage(r, "newPage")
SetViewportSize(r) == Stage(r, "setViewportSize")
SetExtraHTTPHeaders(r) == Stage(r, "setExtraHTTPHeaders")
Goto(r) == Stage(r, "goto")
WaitForTimeout(r) == Stage(r, "waitForTimeout")
Screenshot(r) == Stage(r, "screenshot")

\* await browser.close() settles: resolved, the handler sends the result; rejected, the
\* error leaves takeScreenshot through finally and the handler's catch answers; whether
\* the process is gone after a rejected close is not known
Close(r) ==
    /\ req[r].pc = "close"
    /\ LET s == [req[r] EXCEPT !.calls = Append(@, "close")] IN
          \/ req' = [req EXCEPT ![r] = Respond([s EXCEPT !.proc = "exited"])]
          \/ \E left \in {"running", "exited"} :
                req' = [req EXCEPT ![r] =
                           RouteCatch([s EXCEPT !.proc = left, !.closeFailed = TRUE],
                                      "close failed")]
    /\ UNCHANGED <<variant, now, store, seen, wasLimited>>

\* the response is on the wire; the slot is free for the next request
Recycle(r) ==
    /\ req[r].pc = "done"
    /\ req' = [req EXCEPT ![r] = IdleSlot]
    /\ UNCHANGED <<variant, now, store, seen, wasLimited>>

\* half a window of time passes
AdvanceClock ==
    /\ now < MaxTicks * Tick
    /\ now' = now + Tick
    /\ UNCHANGED <<variant, store, seen, wasLimited, req>>

Init ==
    /\ variant \in Variants
    /\ now = 0
    /\ store = [k \in Keys |-> NoEntry]
    /\ seen = [k \in Keys |-> [start |-> 0, count |-> 0]]
    /\ wasLimited = [k \in Keys |-> FALSE]
    /\ req = [r \in Reqs |-> IdleSlot]

takeScreenshot(r) ==
    \/ Launch(r) \/ NewPage(r) \/ SetViewportSize(r) \/ SetExtraHTTPHeaders(r)
    \/ Goto(r) \/ WaitForTimeout(r) \/ Screenshot(r) \/ Close(r)

\* how many requests each key may send in one window, per specification
Caps == [k \in Keys |-> IF k = "k1" THEN MaxHits ELSE 0]
BurstCaps == [k \in Keys |-> IF k = "k1" THEN max + MaxOver ELSE MaxHits]

Next ==
    \/ Receive(1, AllRoutes, Bags, Caps) \/ takeScreenshot(1) \/ Recycle(1)
    \/ AdvanceClock

NextBurst ==
    \/ Receive(1, AllRoutes, BurstBags, BurstCaps) \/ takeScreenshot(1) \/ Recycle(1)
    \/ AdvanceClock

\* two requests of one client in flight together: slot 1 holds a valid request that goes
\* through the browser stages, slot 2 requests without a url that arrive meanwhile
RaceRoutes == {rt \in AllRoutes : rt.method = "GET" /\ Handler(variant, rt) = "screenshot"}
RaceCaps == [k \in Keys |-> IF k = "k1" THEN max + MaxOver ELSE 0]

NextRace ==
    \/ Receive(1, RaceRoutes, {[EmptyBag EXCEPT !.url = Str(OkUrl)]}, RaceCaps)
    \/ Receive(2, RaceRoutes, {EmptyBag}, RaceCaps)
    \/ takeScreenshot(1) \/ Recycle(1) \/ Recycle(2)

\* two requests of one client in flight together, each through its own browser stages
PairRoutes == {rt \in AllRoutes : Handler(variant, rt) = "screenshot"}
PairBags ==
    {   [EmptyBag EXCEPT !.url = Str(OkUrl)],
        [EmptyBag EXCEPT !.url = Str(OkUrl), !.format = Str("png"), !.width = Num(Tenths(100)),
                         !.height = Num(Tenths(2000)), !.full_page = Str("true"),
                         !.referer = Str(OkReferer)],
        EmptyBag
    }

NextPair ==
    \/ Receive(1, PairRoutes, PairBags, Caps) \/ Receive(2, PairRoutes, PairBags, Caps)
    \/ takeScreenshot(1) \/ takeScreenshot(2)
    \/ Recycle(1) \/ Recycle(2)

\* a client whose first 30 requests of every window fail validation; what it sends after
\* them is valid or not
InvalidBags == {bag \in BurstBags : AllErrors(bag) # <<>>}

NextInvalid ==
    \/ Receive(1, PairRoutes,
               IF Observed(seen["k1"], now).count <= max THEN InvalidBags ELSE BurstBags,
               RaceCaps)
    \/ Recycle(1)
    \/ AdvanceClock

\* every kind of request, one at a time, the quota out of reach
Spec == Init /\ [][Next]_vars

\* one client's requests up to and past the quota, beside a second client's
SpecBurst == Init /\ [][NextBurst]_vars

\* one client's overlapping requests to the screenshot routes, within the quota
SpecPair == Init /\ [][NextPair]_vars

\* one client's invalid requests up to the quota, and what follows them
SpecInvalid == Init /\ [][NextInvalid]_vars

\* one client's overlapping requests up to and past the quota, all in one window
SpecRace == Init /\ [][NextRace]_vars

(***************************************************************************)
(* Vocabulary of the properties.                                           *)
(***************************************************************************)
Active(s) == s.pc # "idle"
Answered(s) == s.pc = "done"
OnScreenshotRoute(s) == Active(s) /\ Handler(variant, s.route) = "screenshot"
Status(s) == s.response.status
NoBrowserWork(s) == s.calls = <<>> /\ s.proc = "none" /\ ~s.browser /\ s.value = NoValue

IsNumeric(raw) == raw.k = "num" \/ (raw.k = "str" /\ raw.s \in NumericStrings)
NumberOf(raw) == IF raw.k = "num" THEN raw.n ELSE ParseNumber(raw.s)
\* a number outside [100, 2000]
OutOfRange(raw) == IsNumeric(raw) /\ (NumberOf(raw) < Tenths(100) \/ NumberOf(raw) > Tenths(2000))
\* a non-integer number inside [100, 2000]
NonInteger(raw) == IsNumeric(raw) /\ ~OutOfRange(raw) /\ NumberOf(raw) % 10 # 0
InRangeValue(n) == Tenths(100) <= n /\ n <= Tenths(2000)
Names(details, field) == \E i \in DOMAIN details : details[i].path = field

(***************************************************************************)
(* C1: no request has been answered while the browser it launched is still *)
(* open. Fails: when browser.close() rejects, the route's catch answers    *)
(* 500 and the browser process may still be running.                       *)
(***************************************************************************)
C1_ClosedBeforeResponse ==
    \A r \in Reqs : Answered(req[r]) => req[r].proc # "running"

(***************************************************************************)
(* C2: of the requests one key sends in one window, the first 30 are       *)
(* admitted and the 31st is answered 429; the first request of the key     *)
(* after the window has elapsed is admitted again.                         *)
(***************************************************************************)
C2_QuotaPerWindow ==
    \A r \in Reqs :
        LET s == req[r] IN
        Active(s) =>
            /\ s.ord <= 30 => Status(s) # 429 /\ (s.validated \/ Status(s) = 404)
            /\ s.ord = 31 => Answered(s) /\ Status(s) = 429

\* a key that was limited in an earlier window has its first request of a new window admitted
C2_Witness ==
    \E r \in Reqs :
        /\ Active(req[r]) /\ now > 0 /\ req[r].ord = 1
        /\ wasLimited[req[r].key] /\ req[r].validated /\ Status(req[r]) # 429

(***************************************************************************)
(* C3: a request answered 429 was never validated and launched no browser, *)
(* and every request that was validated had passed the limiter.            *)
(***************************************************************************)
C3_LimitedNeverValidated ==
    \A r \in Reqs :
        LET s == req[r] IN
        /\ Status(s) = 429 => Answered(s) /\ ~s.validated /\ NoBrowserWork(s)
        /\ s.validated => s.hit >= 1 /\ s.hit <= 30

\* a valid request to a screenshot route answered 429
C3_Witness ==
    \E r \in Reqs :
        /\ OnScreenshotRoute(req[r]) /\ Status(req[r]) = 429
        /\ AllErrors(req[r].bag) = <<>>

(***************************************************************************)
(* C4: a request in which a browser stage failed is answered 500 with a    *)
(* JSON body that has an error field, on the GET and the POST route, and   *)
(* no failure leaves the handler unhandled.                                *)
(***************************************************************************)
C4_FailuresBecome500 ==
    \A r \in Reqs :
        LET s == req[r] IN
        /\ ~s.unhandled
        /\ Answered(s) /\ (s.failed # "" \/ s.closeFailed) =>
              /\ Status(s) = 500
              /\ s.response.body.kind \in {"json", "json-text"}
              /\ s.response.body.error # <<>>

\* a POST whose navigation timed out, answered 500
C4_Witness ==
    \E r \in Reqs :
        /\ Answered(req[r]) /\ req[r].route.method = "POST" /\ req[r].failed = "goto"
        /\ Status(req[r]) = 500
        /\ req[r].response.body.error = <<ScreenshotFailedPrefix, "Timeout 20000ms exceeded">>

(***************************************************************************)
(* C5, as stated: a request to a screenshot route whose width or height is *)
(* outside [100, 2000] is answered 400 and launches no browser, and every  *)
(* value that reaches takeScreenshot has both within [100, 2000].          *)
(* Fails: past the quota such a request is answered 429.                   *)
(***************************************************************************)
C5_OutOfRangeAlways400 ==
    \A r \in Reqs :
        LET s == req[r] IN
        /\ OnScreenshotRoute(s) /\ (OutOfRange(s.bag.width) \/ OutOfRange(s.bag.height)) =>
              Answered(s) /\ Status(s) = 400 /\ NoBrowserWork(s)
        /\ s.value # NoValue => InRangeValue(s.value.width) /\ InRangeValue(s.value.height)

(***************************************************************************)
(* C5, amended: such a request is answered 400 unless the rate limiter     *)
(* rejected it first (429, only past the quota); either way no browser is  *)
(* launched for it, and every value that reaches takeScreenshot has width  *)
(* and height within [100, 2000].                                          *)
(***************************************************************************)
C5_OutOfRangeNeverCaptured ==
    \A r \in Reqs :
        LET s == req[r] IN
        /\ OnScreenshotRoute(s) /\ (OutOfRange(s.bag.width) \/ OutOfRange(s.bag.height)) =>
              /\ Answered(s) /\ NoBrowserWork(s)
              /\ Status(s) \in {400, 429}
              /\ Status(s) = 429 => s.ord > 30
        /\ s.value # NoValue => InRangeValue(s.value.width) /\ InRangeValue(s.value.height)

\* a request with width 2001 answered 400
C5_Witness ==
    \E r \in Reqs :
        /\ OnScreenshotRoute(req[r]) /\ OutOfRange(req[r].bag.width)
        /\ req[r].bag.url = Str(OkUrl) /\ Status(req[r]) = 400

(***************************************************************************)
(* C6, as stated: a request to a screenshot route with no url is answered  *)
(* 400 with an error that names the url field, and launches no browser.    *)
(* Fails: past the quota such a request is answered 429.                   *)
(***************************************************************************)
C6_MissingUrlAlways400 ==
    \A r \in Reqs :
        LET s == req[r] IN
        OnScreenshotRoute(s) /\ s.bag.url = Absent =>
            /\ Answered(s) /\ Status(s) = 400 /\ NoBrowserWork(s)
            /\ Names(s.response.body.details, "url")

(***************************************************************************)
(* C6, amended: such a request is answered 400 with an error that names    *)
(* the url field unless the rate limiter rejected it first (429, only past *)
(* the quota); either way no browser is launched for it.                   *)
(***************************************************************************)
C6_MissingUrlRejected ==
    \A r \in Reqs :
        LET s == req[r] IN
        OnScreenshotRoute(s) /\ s.bag.url = Absent =>
            /\ Answered(s) /\ NoBrowserWork(s)
            /\ Status(s) \in {400, 429}
            /\ Status(s) = 429 => s.ord > 30
            /\ Status(s) = 400 => Names(s.response.body.details, "url")

\* a request with no url answered 400 naming url
C6_Witness ==
    \E r \in Reqs :
        /\ OnScreenshotRoute(req[r]) /\ req[r].bag.url = Absent /\ Status(req[r]) = 400
        /\ req[r].response.body.details = <<Detail("url", "any.required")>>

(***************************************************************************)
(* C7, as stated: a 400 response lists every rule its parameter set        *)
(* violates. Fails: validate runs with Joi's abortEarly default.           *)
(***************************************************************************)
C7_EveryViolationListed ==
    \A r \in Reqs :
        Status(req[r]) = 400 =>
            \A i \in DOMAIN AllErrors(req[r].bag) :
                Names(req[r].response.body.details, AllErrors(req[r].bag)[i].path)

(***************************************************************************)
(* C7, amended: a 400 response lists exactly one violated rule, the first  *)
(* one in the order the schema declares its keys (unknown keys last).      *)
(***************************************************************************)
C7_FirstViolationOnly ==
    \A r \in Reqs :
        Status(req[r]) = 400 =>
            /\ AllErrors(req[r].bag) # <<>>
            /\ req[r].response.body.details = <<AllErrors(req[r].bag)[1]>>

\* url missing, format unsupported, width out of range: the response names url alone
C7_Witness ==
    \E r \in Reqs :
        /\ Status(req[r]) = 400 /\ Len(AllErrors(req[r].bag)) = 3
        /\ req[r].response.body.details = <<Detail("url", "any.required")>>

(***************************************************************************)
(* C8, as stated: an admitted request to a screenshot route that is valid  *)
(* but for a field the schema does not name is accepted and goes on to     *)
(* capture. Fails: Joi's object() rejects unknown keys.                    *)
(***************************************************************************)
OtherwiseValid(bag) == bag.debug # Absent /\ AllErrors([bag EXCEPT !.debug = Absent]) = <<>>

C8_UnknownFieldsIgnored ==
    \A r \in Reqs :
        LET s == req[r] IN
        OnScreenshotRoute(s) /\ s.validated /\ OtherwiseValid(s.bag) =>
            Status(s) # 400 /\ s.value # NoValue

(***************************************************************************)
(* C8, amended: such a request is rejected with 400, the error naming the  *)
(* unknown field, and no browser is launched for it.                       *)
(***************************************************************************)
C8_UnknownFieldsRejected ==
    \A r \in Reqs :
        LET s == req[r] IN
        OnScreenshotRoute(s) /\ s.validated /\ OtherwiseValid(s.bag) =>
            /\ Answered(s) /\ Status(s) = 400 /\ NoBrowserWork(s)
            /\ s.response.body.details = <<Detail(UnknownField, "object.unknown")>>

\* a valid url plus an unknown field, answered 400
C8_Witness ==
    \E r \in Reqs :
        /\ OnScreenshotRoute(req[r]) /\ OtherwiseValid(req[r].bag)
        /\ req[r].bag.url = Str(OkUrl) /\ Status(req[r]) = 400

(***************************************************************************)
(* C9: an admitted request to a screenshot route whose width or height is  *)
(* a non-integer inside [100, 2000] is answered 400 and never reaches      *)
(* takeScreenshot. Fails: the schema's number() has no integer() rule, so  *)
(* 100.5 passes validation and a browser is launched.                      *)
(***************************************************************************)
C9_NonIntegerRejected ==
    \A r \in Reqs :
        LET s == req[r] IN
        OnScreenshotRoute(s) /\ s.validated
          /\ (NonInteger(s.bag.width) \/ NonInteger(s.bag.height)) =>
            Answered(s) /\ Status(s) = 400 /\ NoBrowserWork(s)

(***************************************************************************)
(* C10, as stated: GET /health and GET / with no url are answered 200.     *)
(* Fails: neither file registers a probe route.                            *)
(***************************************************************************)
IsProbe(s) ==
    /\ Active(s) /\ s.route.method = "GET" /\ s.route.path \in {"/health", "/"}
    /\ s.bag.url = Absent

C10_ProbeAnswers200 ==
    \A r \in Reqs : IsProbe(req[r]) => Answered(req[r]) /\ Status(req[r]) = 200

(***************************************************************************)
(* C10, amended: GET /health and GET / are no probes. Both are counted by  *)
(* the rate limiter and answered 429 past the quota; within the quota GET  *)
(* /health matches no route (404) in either file, and GET / matches no     *)
(* route in screenshot.js and is the screenshot route in part_000, where   *)
(* it is validated and answered 400 without a url. Neither answers 200.    *)
(***************************************************************************)
C10_NoProbeRoute ==
    \A r \in Reqs :
        LET s == req[r] IN
        IsProbe(s) =>
            /\ Answered(s) /\ s.hit >= 1 /\ NoBrowserWork(s)
            /\ s.ord > 30 => Status(s) = 429
            /\ s.ord <= 30 =>
                  Status(s) = IF variant = "part_000" /\ s.route.path = "/" THEN 400 ELSE 404

\* GET /health from a client past its quota, answered 429
C10_Witness ==
    \E r \in Reqs :
        /\ IsProbe(req[r]) /\ req[r].route.path = "/health"
        /\ req[r].ord = 31 /\ Status(req[r]) = 429

(***************************************************************************)
(* C11: a request whose capture succeeded and whose takeScreenshot         *)
(* returned is answered 200 with Content-Type image/<format>, the format   *)
(* being the one requested, or jpeg when the request named none; the image *)
(* was captured in that format.                                            *)
(***************************************************************************)
RequestedFormat(bag) == IF bag.format = Absent THEN "jpeg" ELSE bag.format.s
Captured(s) ==
    /\ s.failed = "" /\ ~s.closeFailed
    /\ \E i \in DOMAIN s.calls : s.calls[i] = "screenshot"

C11_SuccessIsImage ==
    \A r \in Reqs :
        LET s == req[r] IN
        /\ Answered(s) /\ Captured(s) =>
              /\ Status(s) = 200
              /\ s.response.contentType = <<"image/", RequestedFormat(s.bag)>>
              /\ s.response.body.image.format = RequestedFormat(s.bag)
        /\ Status(s) = 200 => Captured(s) /\ AllErrors(s.bag) = <<>>

\* a request that names no format, answered 200 as image/jpeg
C11_Witness ==
    \E r \in Reqs :
        /\ Answered(req[r]) /\ Captured(req[r]) /\ req[r].bag.format = Absent
        /\ Status(req[r]) = 200 /\ req[r].response.contentType = <<"image/", "jpeg">>

(***************************************************************************)
(* C12: the body of a 200 response is the buffer the capture produced, the *)
(* bytes of the image, with nothing applied to it between capture and      *)
(* send. Fails: takeScreenshot returns buffer.toString('base64') and the   *)
(* handler sends that string, so the body under image/<format> is base64   *)
(* text.                                                                   *)
(***************************************************************************)
C12_BodyIsCapturedBuffer ==
    \A r \in Reqs :
        LET s == req[r] IN
        Answered(s) /\ Status(s) = 200 =>
            s.response.body = Buffer(s.response.body.image)

(***************************************************************************)
(* C13: once the page's extra headers are set, its Referer is the          *)
(* request's referer when the request carried one and the request's url    *)
(* when it carried none; navigation is never attempted before the headers  *)
(* are set.                                                                *)
(***************************************************************************)
Called(s, stage) == \E i \in DOMAIN s.calls : s.calls[i] = stage
HeadersSet(s) == Called(s, "setExtraHTTPHeaders") /\ s.failed # "setExtraHTTPHeaders"

C13_RefererHeader ==
    \A r \in Reqs :
        LET s == req[r] IN
        /\ HeadersSet(s) =>
              s.page.referer = IF s.bag.referer # Absent THEN s.bag.referer.s ELSE s.bag.url.s
        /\ Called(s, "goto") => HeadersSet(s) /\ s.page.referer # ""

\* a request with a referer of its own, navigating with it
C13_Witness ==
    \E r \in Reqs :
        /\ Called(req[r], "goto") /\ req[r].bag.referer = Str(OkReferer)
        /\ req[r].bag.url = Str(OkUrl) /\ req[r].page.referer = OkReferer

(***************************************************************************)
(* C14: within one request no browser call is made twice (one launch, one  *)
(* navigation, one capture at most), and once a stage has failed the only  *)
(* call that follows it is close.                                          *)
(***************************************************************************)
C14_AttemptedOnce ==
    \A r \in Reqs :
        LET s == req[r] IN
        /\ \A i, j \in DOMAIN s.calls : s.calls[i] = s.calls[j] => i = j
        /\ s.failed # "" =>
              \E i \in DOMAIN s.calls :
                  /\ s.calls[i] = s.failed
                  /\ \A j \in DOMAIN s.calls : j > i => s.calls[j] = "close"

\* a request whose navigation failed: five stages and close, each called once
C14_Witness ==
    \E r \in Reqs :
        /\ Answered(req[r]) /\ req[r].failed = "goto"
        /\ req[r].calls = <<"launch", "newPage", "setViewportSize", "setExtraHTTPHeaders",
                            "goto", "close">>

SameRequest(s1, s2) ==
    /\ Active(s1) /\ Active(s2)
    /\ s1.key = s2.key /\ s1.route = s2.route /\ s1.bag = s2.bag
    /\ AllErrors(s1.bag) = <<>> /\ s1.ord <= 30 /\ s2.ord <= 30

OwnSession(s) ==
    /\ s.browser /\ s.proc = "exited" /\ s.page.open
    /\ s.calls = StageOrder \o <<"close">>

TwiceIsTwoCaptures ==
    \A r1, r2 \in Reqs :
        LET s1 == req[r1]
            s2 == req[r2] IN
        r1 # r2 /\ SameRequest(s1, s2) =>
            /\ s1.validated /\ s2.validated
            /\ Status(s1) \notin {400, 429} /\ Status(s2) \notin {400, 429}
            /\ Answered(s1) /\ Captured(s1) /\ Answered(s2) /\ Captured(s2) =>
                  /\ Status(s1) = 200 /\ s1.response = s2.response
                  /\ OwnSession(s1) /\ OwnSession(s2)

OneRequestPerStep ==
    \A r \in Reqs : req'[r] # req[r] => \A q \in Reqs \ {r} : req'[q] = req[q]

C16_IndependentCaptures == []TwiceIsTwoCaptures /\ [][OneRequestPerStep]_vars

\* the second of two equal requests has been answered 200 while the first is still
\* navigating
C16_Witness ==
    /\ SameRequest(req[1], req[2]) /\ req[1].pc = "goto"
    /\ Answered(req[2]) /\ Captured(req[2]) /\ Status(req[2]) = 200 /\ OwnSession(req[2])

(***************************************************************************)
(* C17: the browser calls of a request are a prefix of launch, newPage,    *)
(* setViewportSize, setExtraHTTPHeaders, goto, waitForTimeout (1000 ms),   *)
(* screenshot, followed by nothing or by close; close comes only after the *)
(* capture or after the stage that failed, and a request that called       *)
(* takeScreenshot is answered with close called exactly when its launch    *)
(* had succeeded.                                                          *)
(***************************************************************************)
C17_StagesInOrder ==
    \A r \in Reqs :
        LET s == req[r]
            order == <<"launch", "newPage", "setViewportSize", "setExtraHTTPHeaders", "goto",
                       "waitForTimeout", "screenshot">>
        IN  /\ \E k \in 0..7 :
                  \/ s.calls = SubSeq(order, 1, k) /\ (s.failed # "" => k >= 1 /\ s.failed = order[k])
                  \/ /\ s.calls = SubSeq(order, 1, k) \o <<"close">>
                     /\ k >= 1
                     /\ IF s.failed = "" THEN k = 7 ELSE s.failed = order[k] /\ k >= 2
            /\ Called(s, "screenshot") => s.page.waited = 1000
            /\ Answered(s) /\ s.calls # <<>> => (Called(s, "close") <=> s.failed # "launch")

\* the viewport could not be set: goto, the wait and the capture are skipped, close is called
C17_Witness ==
    \E r \in Reqs :
        /\ Answered(req[r]) /\ req[r].failed = "setViewportSize"
        /\ req[r].calls = <<"launch", "newPage", "setViewportSize", "close">>

(***************************************************************************)
(* C18: a request is answered 200 only after all seven stages and close    *)
(* succeeded; when close rejects after a capture that had built the 200    *)
(* result, the request is answered 500 with the JSON error of the route's  *)
(* catch, and the image is not sent.                                       *)
(***************************************************************************)
C18_CloseFailureReplaces200 ==
    \A r \in Reqs :
        LET s == req[r] IN
        /\ Status(s) = 200 =>
              /\ s.failed = "" /\ ~s.closeFailed
              /\ s.calls = <<"launch", "newPage", "setViewportSize", "setExtraHTTPHeaders",
                             "goto", "waitForTimeout", "screenshot", "close">>
        /\ s.closeFailed /\ s.result.status = 200 =>
              /\ Answered(s) /\ Status(s) = 500
              /\ s.response.contentType = <<"application/json">>
              /\ s.response.body.kind = "json" /\ s.response.body.error = <<"close failed">>
              /\ s.response.body.image = NoImage

\* the capture succeeded, close rejected: the 200 result is dropped for a 500
C18_Witness ==
    \E r \in Reqs :
        /\ Answered(req[r]) /\ req[r].closeFailed /\ Called(req[r], "screenshot")
        /\ req[r].result.status = 200 /\ Status(req[r]) = 500

(***************************************************************************)
(* C19: a request that fails validation is counted by the limiter like any *)
(* other. When the first 30 requests of a key in a window are invalid,     *)
(* each is answered 400 with the count of its position, and the 31st       *)
(* request of that window, valid or not, is answered 429 without being     *)
(* validated.                                                              *)
(***************************************************************************)
C19_InvalidRequestsCounted ==
    \A r \in Reqs :
        LET s == req[r] IN
        Active(s) =>
            /\ s.ord <= 30 => /\ AllErrors(s.bag) # <<>>
                              /\ Answered(s) /\ Status(s) = 400 /\ s.hit = s.ord
            /\ s.ord = 31 => Answered(s) /\ Status(s) = 429 /\ ~s.validated /\ s.hit = 31

\* after 30 invalid requests a valid one is answered 429
C19_Witness ==
    \E r \in Reqs :
        /\ Active(req[r]) /\ req[r].ord = 31 /\ AllErrors(req[r].bag) = <<>>
        /\ Status(req[r]) = 429

(***************************************************************************)
(* C20: every request that has run to its end has been answered with 200,  *)
(* 400, 429 or 500, and the browser it launched has been closed, whatever  *)
(* other request was in flight beside it. A request does nothing after its *)
(* response, so a browser still open then is never closed. Fails: when     *)
(* browser.close() rejects, the request is answered 500 and its browser    *)
(* process may still be running (the failure of C1).                       *)
(***************************************************************************)
C20_AnsweredAndClosed ==
    \A r \in Reqs :
        LET s == req[r] IN
        Answered(s) =>
            /\ Status(s) \in {200, 400, 429, 500}
            /\ s.browser => Called(s, "close") /\ s.proc = "exited"

====
